---------------------------- MODULE Spec2Model ----------------------------
(***************************************************************************)
(* Model of the IDA plugin "IID to String" (src/iid-to-string.py).         *)
(*                                                                         *)
(* The plugin registers one action.  When the action is activated it reads *)
(* the item at the cursor, requires it to be 16 bytes long, renders the    *)
(* bytes as a GUID string and writes that string as a regular comment at   *)
(* the item and at every address that has a cross reference to it.         *)
(*                                                                         *)
(* The host (IDA) is modelled by its database (items, cross references,    *)
(* regular and repeatable comments, cursor), its action registry, its UI   *)
(* hook list and the popup it is building.  Strings are sequences of       *)
(* one-character strings, so that formatting is computed, not assumed.     *)
(***************************************************************************)
EXTENDS Integers, Sequences, FiniteSets, TLC

VARIABLES
    item,        \* database: address -> bytes of the item that starts there
    xrefs,       \* database: set of <<frm, to>> cross references
    cmt,         \* database: address -> regular comment
    rcmt,        \* database: address -> repeatable comment
    screen_ea,   \* the address under the cursor (idc.get_screen_ea)
    registered,  \* the action "iid_to_string" is in the host's action registry
    hooked,      \* the plugin's UI_Hooks object is installed
    plugin,      \* "unloaded" | "loaded": whether init has completed and term has not
    pc,          \* "idle" | "init" | "term": position inside plugin_t.init / term
    popup,       \* the popup the host built last: [wtype, attached], or NoPopup
    ret,         \* what the last handler call returned (val, as text) or raised (exc)
    console,     \* lines printed by the last handler call
    calls        \* idaapi.set_cmt calls made by the last handler call: [ea, rptble, ok]

vars == <<item, xrefs, cmt, rcmt, screen_ea, registered, hooked, plugin, pc,
          popup, ret, console, calls>>

db == <<item, xrefs, cmt, rcmt, screen_ea>>
life == <<registered, hooked, plugin, pc>>

---------------------------------------------------------------------------
(* Bounds of the model.                                                    *)

NumAddr == 3       \* addresses in the database: 0 .. NumAddr-1
MaxXrefs == 2      \* cross references in the database (SpecDB)
MaxFail == 1       \* set_cmt calls the host lets fail in one activation

Addr == 0 .. (NumAddr - 1)

---------------------------------------------------------------------------
(* Sample data.                                                            *)

NoCmt == <<>>
OldCmt == <<"o", "l", "d">>

\* The 16 bytes 11 22 33 44 55 66 77 88 99 AA BB CC DD EE FF 00.
IID1 == <<17, 34, 51, 68, 85, 102, 119, 136, 153, 170, 187, 204, 221, 238, 255, 0>>
\* IID_IUnknown, 00000000-0000-0000-C000-000000000046, as stored.
IID2 == <<0, 0, 0, 0, 0, 0, 0, 0, 192, 0, 0, 0, 0, 0, 0, 70>>
\* Items one byte shorter and one byte longer than an IID.
Short == SubSeq(IID1, 1, 15)
Long == IID1 \o <<1>>

Pool == {IID1, IID2, Short, Long}

\* The item an address holds in the sample database.
ItemAt(a) ==
    CASE a % 4 = 0 -> IID1
      [] a % 4 = 1 -> IID2
      [] a % 4 = 2 -> Short
      [] OTHER     -> Long

\* What the user may turn an item into: other bytes for a 16-byte item,
\* another wrong size for an item of a wrong size.
Edits(it) == {x \in Pool : x # it /\ ((Len(x) = 16) <=> (Len(it) = 16))}

\* Inputs of the decoder: the samples, and every 16-byte buffer that is zero
\* except one byte.
ByteSamples == {1, 16, 255}
OneHot(p, v) == [i \in 1 .. 16 |-> IF i = p THEN v ELSE 0]
DecodeInputs == {IID1, IID2} \cup {OneHot(p, v) : p \in 1 .. 16, v \in ByteSamples}

WidgetTypes == {"BWN_DISASMS", "BWN_PSEUDOCODE", "BWN_OUTPUT"}

NoPopup == [wtype |-> "none", attached |-> FALSE]
NoRet == [fn |-> "none", val |-> "none", exc |-> "none"]

---------------------------------------------------------------------------
(* uuid.UUID(bytes_le=b) and str(guid).                                    *)
(* The UUID's 128-bit integer is kept as its 16 base-256 digits, most      *)
(* significant first, so '%032x' % int is two hex digits per digit.        *)

HexDigits == <<"0", "1", "2", "3", "4", "5", "6", "7",
               "8", "9", "a", "b", "c", "d", "e", "f">>

HexByte(b) == <<HexDigits[(b \div 16) + 1], HexDigits[(b % 16) + 1]>>

RECURSIVE Hex32(_)
Hex32(bs) == IF bs = <<>> THEN <<>> ELSE HexByte(Head(bs)) \o Hex32(Tail(bs))

Reverse(s) == [i \in 1 .. Len(s) |-> s[Len(s) + 1 - i]]

\* Mutant: uuid.UUID(bytes=b), the buffer taken as big-endian throughout.
UUID_bytes_le_AsBytes(b) == SubSeq(b, 1, 16)

\* Mutant: only the first field is taken as little-endian.
UUID_bytes_le_FirstFieldOnly(b) == Reverse(SubSeq(b, 1, 4)) \o SubSeq(b, 5, 16)

\* bytes_le[4-1::-1] + bytes_le[6-1:4-1:-1] + bytes_le[8-1:6-1:-1] + bytes_le[8:]
UUID_bytes_le(b) ==
    Reverse(SubSeq(b, 1, 4)) \o Reverse(SubSeq(b, 5, 6))
        \o Reverse(SubSeq(b, 7, 8)) \o SubSeq(b, 9, 16)

\* '%s-%s-%s-%s-%s' % (hex[:8], hex[8:12], hex[12:16], hex[16:20], hex[20:])
UUID_str(bytes) ==
    LET hex == Hex32(bytes)
    IN  SubSeq(hex, 1, 8) \o <<"-">> \o SubSeq(hex, 9, 12) \o <<"-">>
            \o SubSeq(hex, 13, 16) \o <<"-">> \o SubSeq(hex, 17, 20) \o <<"-">>
            \o SubSeq(hex, 21, 32)

\* str(uuid.UUID(bytes_le=guid_bytes))
GuidString(guid_bytes) == UUID_str(UUID_bytes_le(guid_bytes))

---------------------------------------------------------------------------
(* Host API used by the callback.                                          *)

get_item_size(ea) == Len(item[ea])

get_bytes(ea, n) == SubSeq(item[ea], 1, n)

RECURSIVE Ascending(_)
Ascending(S) ==
    IF S = {} THEN <<>>
    ELSE LET m == CHOOSE x \in S : \A y \in S : x <= y
         IN  <<m>> \o Ascending(S \ {m})

\* Mutant: idautils.XrefsFrom(ea, 0), the addresses ea refers to.
XrefsTo_XrefsFrom(ea) == Ascending({x[2] : x \in {y \in xrefs : y[1] = ea}})

\* idautils.XrefsTo(ea, 0): the frm of every cross reference to ea, in
\* address order.
XrefsTo(ea) == Ascending({x[1] : x \in {y \in xrefs : y[2] = ea}})

\* Mutant: idaapi.append_cmt, which adds to the comment that is there.
set_cmt_Append(st, ea, comm, rptble, ok) ==
    [cmt   |-> IF ok /\ ~rptble THEN [st.cmt EXCEPT ![ea] = @ \o comm] ELSE st.cmt,
     rcmt  |-> IF ok /\ rptble THEN [st.rcmt EXCEPT ![ea] = @ \o comm] ELSE st.rcmt,
     calls |-> Append(st.calls, [ea |-> ea, rptble |-> rptble, ok |-> ok])]

\* Mutant: a comment that is there is kept.
set_cmt_KeepExisting(st, ea, comm, rptble, ok) ==
    [cmt   |-> IF ok /\ ~rptble /\ st.cmt[ea] = <<>>
               THEN [st.cmt EXCEPT ![ea] = comm] ELSE st.cmt,
     rcmt  |-> IF ok /\ rptble /\ st.rcmt[ea] = <<>>
               THEN [st.rcmt EXCEPT ![ea] = comm] ELSE st.rcmt,
     calls |-> Append(st.calls, [ea |-> ea, rptble |-> rptble, ok |-> ok])]

\* idaapi.set_cmt(ea, comm, rptble) on the state st = [cmt, rcmt, calls]; ok
\* is the host's answer.  A refused call leaves the comment as it was.
set_cmt(st, ea, comm, rptble, ok) ==
    [cmt   |-> IF ok /\ ~rptble THEN [st.cmt EXCEPT ![ea] = comm] ELSE st.cmt,
     rcmt  |-> IF ok /\ rptble THEN [st.rcmt EXCEPT ![ea] = comm] ELSE st.rcmt,
     calls |-> Append(st.calls, [ea |-> ea, rptble |-> rptble, ok |-> ok])]

\* The call numbered k of an activation succeeds unless the host fails it.
Answer(st, fails) == (Len(st.calls) + 1) \notin fails

---------------------------------------------------------------------------
(* iid_to_string_callback.                                                 *)

\* assert num_bytes == 16
IsIIDSize(num_bytes) == num_bytes = 16

\* Mutant: only the first cross reference is commented.
CommentXrefs_FirstOnly(st, froms, s, fails) ==
    IF froms = <<>> THEN st
    ELSE set_cmt(st, Head(froms), s, FALSE, Answer(st, fails))

\* Mutant: the loop ends at the first call the host refuses.
RECURSIVE CommentXrefs_StopOnFailure(_, _, _, _)
CommentXrefs_StopOnFailure(st, froms, s, fails) ==
    IF froms = <<>> THEN st
    ELSE LET ok == Answer(st, fails)
             nxt == set_cmt(st, Head(froms), s, FALSE, ok)
         IN  IF ok THEN CommentXrefs_StopOnFailure(nxt, Tail(froms), s, fails)
             ELSE nxt

\* for xref in idautils.XrefsTo(ea, 0): idaapi.set_cmt(xref.frm, str(guid), False)
RECURSIVE CommentXrefs(_, _, _, _)
CommentXrefs(st, froms, s, fails) ==
    IF froms = <<>> THEN st
    ELSE CommentXrefs(set_cmt(st, Head(froms), s, FALSE, Answer(st, fails)),
                      Tail(froms), s, fails)

\* Mutant: the comments are written before the size is checked.
iid_to_string_callback_CheckLast(st, fails) ==
    LET ea == screen_ea
        num_bytes == get_item_size(ea)
        s == GuidString([i \in 1 .. 16 |->
                            IF i <= num_bytes THEN item[ea][i] ELSE 0])
        w0 == [cmt |-> st.cmt, rcmt |-> st.rcmt, calls |-> st.calls]
        w1 == set_cmt(w0, ea, s, FALSE, Answer(w0, fails))
        w2 == CommentXrefs(w1, XrefsTo(ea), s, fails)
        done == [st EXCEPT !.cmt = w2.cmt, !.rcmt = w2.rcmt, !.calls = w2.calls]
    IN  IF ~IsIIDSize(num_bytes)
        THEN [done EXCEPT !.exc = "AssertionError"]
        ELSE [done EXCEPT !.console = Append(@, [ea |-> ea, guid |-> s])]

\* The callback on the state st = [cmt, rcmt, calls, console, exc]; fails is
\* the set of set_cmt calls (by number) that the host refuses.
iid_to_string_callback(st, fails) ==
    LET ea == screen_ea
        num_bytes == get_item_size(ea)
    IN  IF ~IsIIDSize(num_bytes)
        THEN [st EXCEPT !.exc = "AssertionError"]
        ELSE LET guid_bytes == get_bytes(ea, num_bytes)
             IN  IF Len(guid_bytes) # 16
                 THEN [st EXCEPT !.exc = "ValueError"]
                 ELSE LET s == GuidString(guid_bytes)
                          printed == [st EXCEPT !.console =
                                         Append(@, [ea |-> ea, guid |-> s])]
                          w0 == [cmt |-> printed.cmt, rcmt |-> printed.rcmt,
                                 calls |-> printed.calls]
                          w1 == set_cmt(w0, ea, s, FALSE, Answer(w0, fails))
                          w2 == CommentXrefs(w1, XrefsTo(ea), s, fails)
                     IN  [printed EXCEPT !.cmt = w2.cmt, !.rcmt = w2.rcmt,
                                         !.calls = w2.calls]

\* The state a handler call starts from.
Entry == [cmt |-> cmt, rcmt |-> rcmt, calls |-> <<>>, console |-> <<>>,
          exc |-> "none"]

\* Mutant: the callback is run twice.
activate_Twice(st, fails) ==
    LET r1 == iid_to_string_callback(st, fails)
        r == IF r1.exc # "none" THEN r1 ELSE iid_to_string_callback(r1, fails)
    IN  [st |-> r,
         ret |-> IF r.exc # "none"
                 THEN [fn |-> "activate", val |-> "none", exc |-> r.exc]
                 ELSE [fn |-> "activate", val |-> "1", exc |-> "none"]]

\* IIDToStringHandler.activate: self.action_function(); return 1
activate(st, fails) ==
    LET r == iid_to_string_callback(st, fails)
    IN  [st |-> r,
         ret |-> IF r.exc # "none"
                 THEN [fn |-> "activate", val |-> "none", exc |-> r.exc]
                 ELSE [fn |-> "activate", val |-> "1", exc |-> "none"]]

\* IIDToStringHandler.update: return idaapi.AST_ENABLE_ALWAYS
update(ctx) == "AST_ENABLE_ALWAYS"

\* The sets of call numbers the host may refuse in one activation.
FailSets ==
    LET n == IF Len(item[screen_ea]) = 16
             THEN 1 + Cardinality({x \in xrefs : x[2] = screen_ea}) ELSE 0
    IN  {F \in SUBSET (1 .. n) : Cardinality(F) <= MaxFail}

---------------------------------------------------------------------------
(* Actions.  popup, ret, console and calls describe the event the host     *)
(* handled last; the next event replaces them.                             *)

\* An event that builds no popup, calls no handler and prints nothing.
Quiet == popup' = NoPopup /\ ret' = NoRet /\ calls' = <<>> /\ console' = <<>>

\* The host calls the registered handler's activate.
ActionActivate ==
    /\ registered /\ pc = "idle"
    /\ \E fails \in FailSets :
          LET r == activate(Entry, fails)
          IN  /\ cmt' = r.st.cmt
              /\ rcmt' = r.st.rcmt
              /\ calls' = r.st.calls
              /\ console' = r.st.console
              /\ ret' = r.ret
    /\ popup' = NoPopup
    /\ UNCHANGED <<item, xrefs, screen_ea, life>>

\* The host calls the registered handler's update for some context.
ActionUpdate ==
    /\ registered /\ pc = "idle"
    /\ \E ctx \in WidgetTypes :
          ret' = [fn |-> "update", val |-> update(ctx), exc |-> "none"]
    /\ popup' = NoPopup /\ calls' = <<>> /\ console' = <<>>
    /\ UNCHANGED <<db, life>>

\* plugin_t.init, first statement: self._register_action()
InitRegister ==
    /\ plugin = "unloaded" /\ pc = "idle"
    /\ registered' = TRUE
    /\ pc' = "init"
    /\ Quiet
    /\ UNCHANGED <<db, hooked, plugin>>

\* plugin_t.init, second statement: self._install_hooks(); return PLUGIN_KEEP
InitHook ==
    /\ pc = "init"
    /\ hooked' = TRUE
    /\ pc' = "idle"
    /\ plugin' = "loaded"
    /\ ret' = [fn |-> "init", val |-> "PLUGIN_KEEP", exc |-> "none"]
    /\ UNCHANGED <<db, registered, popup, calls, console>>

\* Mutant: term unregisters the action first.
TermUnhook_UnregisterFirst ==
    /\ plugin = "loaded" /\ pc = "idle"
    /\ registered' = FALSE
    /\ pc' = "term"
    /\ Quiet
    /\ UNCHANGED <<db, hooked, plugin>>

\* plugin_t.term, first statement: self._hooks.unhook()
TermUnhook ==
    /\ plugin = "loaded" /\ pc = "idle"
    /\ hooked' = FALSE
    /\ pc' = "term"
    /\ Quiet
    /\ UNCHANGED <<db, registered, plugin>>

\* plugin_t.term, second statement: self._unregister_action()
TermUnregister ==
    /\ pc = "term"
    /\ registered' = FALSE
    /\ pc' = "idle"
    /\ plugin' = "unloaded"
    /\ ret' = [fn |-> "term", val |-> "none", exc |-> "none"]
    /\ UNCHANGED <<db, hooked, popup, calls, console>>

\* attach_action: attach_action_to_popup for a disassembly widget only.  The
\* host attaches an action that is registered.
attach_action(widget_type) ==
    IF widget_type # "BWN_DISASMS" THEN FALSE ELSE registered

\* The host builds a popup for a widget; Hooks.populating_widget_popup runs
\* when the hooks are installed.
PopulatingWidgetPopup ==
    /\ pc = "idle"
    /\ \E wtype \in WidgetTypes :
          popup' = [wtype |-> wtype,
                    attached |-> IF hooked THEN attach_action(wtype) ELSE FALSE]
    /\ ret' = NoRet /\ calls' = <<>> /\ console' = <<>>
    /\ UNCHANGED <<db, life>>

\* The user moves the cursor.
Jump ==
    /\ pc = "idle"
    /\ \E ea \in Addr : ea # screen_ea /\ screen_ea' = ea
    /\ Quiet
    /\ UNCHANGED <<item, xrefs, cmt, rcmt, life>>

\* The user patches the bytes of a 16-byte item, or resizes another item.
PatchItem ==
    /\ pc = "idle"
    /\ \E a \in Addr : \E it \in Edits(item[a]) : item' = [item EXCEPT ![a] = it]
    /\ Quiet
    /\ UNCHANGED <<xrefs, cmt, rcmt, screen_ea, life>>

---------------------------------------------------------------------------
(* Specifications.                                                         *)

DefaultItems == [a \in Addr |-> ItemAt(a)]
\* Addresses 0 and 1 hold the sample IIDs: every other address refers to
\* both and both refer to it, and address 0 refers to itself.
DefaultXrefs ==
    {x \in Addr \X Addr : (x[1] < 2) # (x[2] < 2) \/ x = <<0, 0>>}
BlankCmts == [a \in Addr |-> NoCmt]
OldCmts == [a \in Addr |-> OldCmt]

InitDatabase(Items, Xrefs, Cmts) ==
    /\ item \in Items
    /\ xrefs \in Xrefs
    /\ cmt \in Cmts
    /\ rcmt = BlankCmts
    /\ screen_ea = 0
    /\ popup = NoPopup /\ ret = NoRet /\ calls = <<>> /\ console = <<>>
    /\ pc = "idle"

Unloaded == registered = FALSE /\ hooked = FALSE /\ plugin = "unloaded"
Loaded == registered = TRUE /\ hooked = TRUE /\ plugin = "loaded"

\* The whole plugin and its host over the sample database.
Init == InitDatabase({DefaultItems}, {DefaultXrefs}, {BlankCmts, OldCmts}) /\ Unloaded

Next ==
    \/ InitRegister
    \/ InitHook
    \/ TermUnhook
    \/ TermUnregister
    \/ PopulatingWidgetPopup
    \/ ActionUpdate
    \/ ActionActivate
    \/ Jump
    \/ PatchItem

Spec == Init /\ [][Next]_vars

\* The loaded plugin over the sample items with every set of at most
\* MaxXrefs cross references.
InitDB ==
    /\ InitDatabase({DefaultItems},
                    {X \in SUBSET (Addr \X Addr) : Cardinality(X) <= MaxXrefs},
                    {BlankCmts, OldCmts})
    /\ Loaded

NextDB == ActionActivate \/ Jump

SpecDB == InitDB /\ [][NextDB]_vars

\* The loaded plugin over the decoder's inputs.
InitDecode ==
    /\ InitDatabase({[a \in Addr |-> IF a = 0 THEN b ELSE IF a = 1 THEN c ELSE ItemAt(a)] :
                        b \in DecodeInputs, c \in DecodeInputs},
                    {{}}, {BlankCmts, OldCmts})
    /\ Loaded

NextDecode == ActionActivate \/ Jump

SpecDecode == InitDecode /\ [][NextDecode]_vars

---------------------------------------------------------------------------
(* Properties.  Strings are read back with a parser written for this       *)
(* section, not with the decoder's tables.                                 *)

LowerHex == <<"0", "1", "2", "3", "4", "5", "6", "7",
              "8", "9", "a", "b", "c", "d", "e", "f">>
IsLowerHex(ch) == \E n \in 1 .. 16 : LowerHex[n] = ch
Nibble(ch) == (CHOOSE n \in 1 .. 16 : LowerHex[n] = ch) - 1

\* The byte written by the two hex characters of s at positions p and p+1.
ByteAt(s, p) == 16 * Nibble(s[p]) + Nibble(s[p + 1])

Hyphens == {9, 14, 19, 24}

\* A string of the form 8-4-4-4-12 in lowercase hex.
IsCanonical(s) ==
    /\ Len(s) = 36
    /\ \A i \in Hyphens : s[i] = "-"
    /\ \A i \in (1 .. 36) \ Hyphens : IsLowerHex(s[i])

\* Where the hex of the k-th byte of the big-endian form starts in the string.
HexPos == <<1, 3, 5, 7, 10, 12, 15, 17, 20, 22, 25, 27, 29, 31, 33, 35>>

\* The canonical string written back into the mixed-endian 16-byte layout.
Encode(s) ==
    LET be == [k \in 1 .. 16 |-> ByteAt(s, HexPos[k])]
    IN  <<be[4], be[3], be[2], be[1], be[6], be[5], be[8], be[7]>>
            \o SubSeq(be, 9, 16)

\* 44332211-6655-8877-99aa-bbccddeeff00
ExampleString ==
    <<"4", "4", "3", "3", "2", "2", "1", "1", "-", "6", "6", "5", "5", "-",
      "8", "8", "7", "7", "-", "9", "9", "a", "a", "-",
      "b", "b", "c", "c", "d", "d", "e", "e", "f", "f", "0", "0">>

\* The addresses with a cross reference to a.
RefsOf(a) == {f \in Addr : <<f, a>> \in xrefs}

\* A step that is a call of the handler's activate, or of its update.
ActivateStep == ret'.fn = "activate" /\ ActionActivate
UpdateStep == ret'.fn = "update" /\ ActionUpdate

\* The last event was an activation (at screen_ea, on the database as it is).
Activated == ret.fn = "activate"
AllOk == \A i \in 1 .. Len(calls) : calls[i].ok
Succeeded == Activated /\ ret.exc = "none" /\ AllOk
Written == {calls[i].ea : i \in 1 .. Len(calls)}
WrittenOk(cs) == {cs[i].ea : i \in {j \in 1 .. Len(cs) : cs[j].ok}}

\* C1: activating on a 16-byte item b always succeeds and prints the string
\* of form 8-4-4-4-12 in lowercase hex whose groups are b3 b2 b1 b0, b5 b4,
\* b7 b6, b8 b9 and b10..b15 (bytes numbered from 0); the bytes
\* 11 22 33 44 55 66 77 88 99 AA BB CC DD EE FF 00 give
\* 44332211-6655-8877-99aa-bbccddeeff00.
C1_Decode ==
    (Activated /\ Len(item[screen_ea]) = 16) =>
        /\ ret.exc = "none"
        /\ Len(console) = 1
        /\ LET b == item[screen_ea]
               s == console[1].guid
           IN  /\ IsCanonical(s)
               /\ ByteAt(s, 1) = b[4] /\ ByteAt(s, 3) = b[3]
               /\ ByteAt(s, 5) = b[2] /\ ByteAt(s, 7) = b[1]
               /\ ByteAt(s, 10) = b[6] /\ ByteAt(s, 12) = b[5]
               /\ ByteAt(s, 15) = b[8] /\ ByteAt(s, 17) = b[7]
               /\ ByteAt(s, 20) = b[9] /\ ByteAt(s, 22) = b[10]
               /\ \A k \in 0 .. 5 : ByteAt(s, 25 + 2 * k) = b[11 + k]
               /\ (b = IID1 => s = ExampleString)

C1_Witness ==
    /\ Activated
    /\ item[screen_ea] = IID1
    /\ console = <<[ea |-> screen_ea, guid |-> ExampleString]>>
    /\ cmt[screen_ea] = ExampleString

\* C5: the string printed for a 16-byte item, written back into the
\* mixed-endian layout, is the item's bytes; and two 16-byte items with the
\* same string have the same bytes.
C5_RoundTrip ==
    /\ (Activated /\ ret.exc = "none") => Encode(console[1].guid) = item[screen_ea]
    /\ \A a, b \in Addr :
          (/\ Len(item[a]) = 16 /\ Len(item[b]) = 16
           /\ GuidString(item[a]) = GuidString(item[b])) => item[a] = item[b]

C5_Witness ==
    /\ Activated /\ ret.exc = "none"
    /\ item[screen_ea] = OneHot(7, 16)
    /\ Encode(console[1].guid) = OneHot(7, 16)
    /\ \E a \in Addr : item[a] = OneHot(8, 16)

\* C2: an activation on an item whose size is not 16 raises the assertion
\* error, makes no set_cmt call, prints nothing, changes no comment, and
\* leaves the plugin loaded.
C2_SizeError ==
    [][(ActivateStep /\ Len(item[screen_ea]) # 16) =>
          /\ ret' = [fn |-> "activate", val |-> "none", exc |-> "AssertionError"]
          /\ calls' = <<>> /\ console' = <<>>
          /\ cmt' = cmt /\ rcmt' = rcmt
          /\ UNCHANGED life]_vars

C2_Witness ==
    /\ Activated /\ ret.exc = "AssertionError"
    /\ Len(item[screen_ea]) = 17
    /\ Cardinality(RefsOf(screen_ea)) = 2
    /\ cmt = OldCmts /\ calls = <<>>
    /\ registered /\ hooked

\* C3 as stated: after an activation on a 16-byte item at A in which every
\* set_cmt call succeeded, exactly R+1 addresses were written, R the number
\* of addresses with a cross reference to A, and each carries the string.
C3_Original ==
    Succeeded =>
        /\ Cardinality(Written) = Cardinality(RefsOf(screen_ea)) + 1
        /\ \A a \in Written : cmt[a] = console[1].guid

\* C3 as amended: after such an activation the addresses written are exactly
\* A and the addresses with a cross reference to A, each carries the decoded
\* string, and they are R+1 addresses when A has no cross reference to
\* itself and R addresses when it has.
C3_FanOut ==
    Succeeded =>
        LET A == screen_ea
            R == Cardinality(RefsOf(A))
        IN  /\ Written = {A} \cup RefsOf(A)
            /\ \A a \in {A} \cup RefsOf(A) :
                  cmt[a] = console[1].guid /\ IsCanonical(cmt[a])
            /\ Encode(console[1].guid) = item[A]
            /\ Cardinality(Written) = IF A \in RefsOf(A) THEN R ELSE R + 1

C3_Witness ==
    /\ Succeeded
    /\ Cardinality(RefsOf(screen_ea)) = 2
    /\ screen_ea \notin RefsOf(screen_ea)
    /\ Cardinality({a \in Addr : cmt[a] = console[1].guid}) = 3

C6_Replace ==
    [][/\ ActivateStep =>
             \A a \in Addr :
                cmt'[a] = IF a \in WrittenOk(calls')
                          THEN console'[1].guid ELSE cmt[a]
       /\ cmt' # cmt => ActivateStep]_vars

C6_Witness ==
    \E A, B, r \in Addr :
        /\ A # B /\ r \notin {A, B}
        /\ r \in RefsOf(A) /\ r \in RefsOf(B)
        /\ Len(item[A]) = 16 /\ Len(item[B]) = 16 /\ item[A] # item[B]
        /\ screen_ea = B /\ Succeeded
        /\ IsCanonical(cmt[A]) /\ Encode(cmt[A]) = item[A]
        /\ cmt[r] = console[1].guid /\ Encode(cmt[r]) = item[B]

\* C7: an activation on a 16-byte item at A calls set_cmt once at A and once
\* at every address with a cross reference to A and returns 1, whichever
\* calls the host refuses; every call that succeeded took effect.
C7_FailSoft ==
    (Activated /\ Len(item[screen_ea]) = 16) =>
        /\ ret = [fn |-> "activate", val |-> "1", exc |-> "none"]
        /\ Len(calls) = 1 + Cardinality(RefsOf(screen_ea))
        /\ calls[1].ea = screen_ea
        /\ {calls[i].ea : i \in 2 .. Len(calls)} = RefsOf(screen_ea)
        /\ \A i \in 1 .. Len(calls) :
              calls[i].ok => cmt[calls[i].ea] = console[1].guid

C7_Witness ==
    /\ Activated /\ ret.val = "1"
    /\ Len(calls) = 3
    /\ ~calls[2].ok /\ calls[3].ok
    /\ cmt[calls[2].ea] # console[1].guid
    /\ cmt[calls[3].ea] = console[1].guid

\* C8 as stated: every activation runs the pipeline once to completion and
\* returns 1.
C8_Original ==
    Activated =>
        ret.val = "1" /\ ret.exc = "none" /\ Len(console) = 1 /\ calls # <<>>

\* C8 as amended: update answers AST_ENABLE_ALWAYS for every context; an
\* activation runs the pipeline once, in that one step, at the address under
\* the cursor: on a 16-byte item it prints one line, calls set_cmt at the
\* cursor and at each referencing address and returns 1, and on any other
\* item the assertion error leaves activate and nothing is returned.
C8_Activation ==
    [][/\ UpdateStep =>
             ret' = [fn |-> "update", val |-> "AST_ENABLE_ALWAYS", exc |-> "none"]
       /\ ActivateStep =>
             IF Len(item[screen_ea]) = 16
             THEN /\ ret' = [fn |-> "activate", val |-> "1", exc |-> "none"]
                  /\ Len(console') = 1
                  /\ console'[1].ea = screen_ea
                  /\ Len(calls') = 1 + Cardinality(RefsOf(screen_ea))
                  /\ \A i \in 1 .. Len(calls') :
                        calls'[i].ea \in {screen_ea} \cup RefsOf(screen_ea)
             ELSE /\ ret' = [fn |-> "activate", val |-> "none",
                             exc |-> "AssertionError"]
                  /\ console' = <<>> /\ calls' = <<>>]_vars

C8_Witness ==
    /\ ret = [fn |-> "activate", val |-> "1", exc |-> "none"]
    /\ Len(console) = 1 /\ console[1].ea = screen_ea
    /\ RefsOf(screen_ea) # {}
    /\ Len(calls) = 1 + Cardinality(RefsOf(screen_ea)) /\ AllOk
    /\ cmt[screen_ea] = console[1].guid

\* C9: an activation at A changes no regular comment outside A and the
\* addresses with a cross reference to A, no repeatable comment, no item,
\* no cross reference and not the cursor.
C9_Frame ==
    [][ActivateStep =>
          /\ \A a \in Addr \ ({screen_ea} \cup RefsOf(screen_ea)) : cmt'[a] = cmt[a]
          /\ rcmt' = rcmt
          /\ item' = item /\ xrefs' = xrefs /\ screen_ea' = screen_ea]_vars

C9_Witness ==
    /\ Succeeded
    /\ RefsOf(screen_ea) # {}
    /\ \A a \in {screen_ea} \cup RefsOf(screen_ea) : cmt[a] = console[1].guid
    /\ \E a \in Addr \ ({screen_ea} \cup RefsOf(screen_ea)) :
          /\ cmt[a] = OldCmt
          /\ <<screen_ea, a>> \in xrefs

\* C10: at every point of init, term and the events between them, installed
\* hooks imply a registered action; a popup gets the action exactly when it
\* is a disassembly widget's and the hooks are installed; and once term has
\* returned neither the hooks nor the action remain.
C10_Lifecycle ==
    /\ hooked => registered
    /\ (plugin = "unloaded" /\ pc = "idle") => (~hooked /\ ~registered)
    /\ popup.attached <=> (popup.wtype = "BWN_DISASMS" /\ hooked)
    /\ ret.fn = "term" => (~hooked /\ ~registered)
    /\ ret.fn = "init" => (hooked /\ registered)

C10_Witness ==
    /\ popup = [wtype |-> "BWN_DISASMS", attached |-> TRUE]
    /\ hooked /\ registered /\ plugin = "loaded"

=============================================================================
